---------------------------- MODULE Spec2Model ----------------------------
(***************************************************************************)
(* Random Forest trainer (Shark, RFTrainer.cpp / RFTrainer.h).             *)
(*                                                                         *)
(* The module models the trainer's configuration and its setters, the two *)
(* train() overloads with their parallel loop over the trees, the global  *)
(* rand() generator the loop bodies draw from, the recursive buildTree    *)
(* (as an explicit call stack), the split search, splitAttributeTables    *)
(* and the impurity helpers.                                               *)
(*                                                                         *)
(* Conventions: row ids, feature indices and node ids are 0-based as in   *)
(* the source; TLA+ sequences are 1-based, so element i of a C++ vector v *)
(* is v[i+1].  A double is modelled by an exact fraction [num, den]; NaN  *)
(* (0.0/0) is the fraction with den = 0.                                   *)
(***************************************************************************)
EXTENDS Integers, Naturals, Sequences, FiniteSets, TLC

\* ------------------------------------------------------------------ bounds

\* Largest number of trees a modelled training run grows.
MaxTrees == 2
\* Number of train() calls followed on one trainer.
MaxRuns == 2
\* Rows of a dataset handed to train().
TrainRows == 2
\* Rows, feature values and features of the datasets a single tree is grown on.
MaxRows == 3
MaxVal == 1
MaxDim == 2
\* Class labels are 0..MaxLabel, regression labels are 0..MaxLabel as well.
MaxLabel == 1
\* Width of std::size_t in the model (node ids wrap modulo 2^IdBits).
IdBits == 2
\* Seeds the user gives the generator are 0..MaxSeed.
MaxSeed == 1
\* Largest node size the user sets on a trainer, and largest node size a
\* single tree is grown with.
MaxNodeSize == 1
TreeNodeSize == 2
\* State space of the rand() generator (its period).
RandPeriod == 8

\* ------------------------------------------------------------- arithmetic

Rat(n, d) == [num |-> n, den |-> d]
\* a < b for fractions with positive denominators
RatLess(a, b) == a.num * b.den < b.num * a.den
RatEq(a, b) == a.num * b.den = b.num * a.den
RatAdd(a, b) == Rat(a.num * b.den + b.num * a.den, a.den * b.den)
RatScale(k, a) == Rat(k * a.num, a.den)

RECURSIVE Pow2(_)
Pow2(k) == IF k = 0 THEN 1 ELSE 2 * Pow2(k - 1)

\* std::size_t arithmetic
Wrap(x) == x % Pow2(IdBits)

RECURSIVE SumSeq(_)
SumSeq(s) == IF s = <<>> THEN 0 ELSE Head(s) + SumSeq(Tail(s))

SumSq(s) == SumSeq([i \in DOMAIN s |-> s[i] * s[i]])

Range(s) == {s[i] : i \in DOMAIN s}

Min(S) == CHOOSE x \in S : \A y \in S : x <= y

\* the elements of a std::set<std::size_t> in iteration (ascending) order
RECURSIVE Ascending(_)
Ascending(S) == IF S = {} THEN <<>> ELSE <<Min(S)>> \o Ascending(S \ {Min(S)})

\* static_cast<std::size_t>(std::ceil(std::sqrt((double)d)))
CeilSqrt(d) == Min({k \in 0..d : k * k >= d})
\* static_cast<std::size_t>(std::ceil(d/3.0))
CeilThird(d) == (d + 2) \div 3

\* --------------------------------------------------------------- datasets
\* A dataset is a sequence of rows [x |-> <<feature values>>, label |-> l].

inputDimension(rows) == IF rows = <<>> THEN 0 ELSE Len(rows[1].x)
numberOfClasses(rows) ==
    IF rows = <<>> THEN 0
    ELSE 1 + (CHOOSE m \in {rows[i].label : i \in DOMAIN rows} :
                 \A i \in DOMAIN rows : rows[i].label <= m)
\* toDataset(subset(elements, indices))
subset(rows, indices) == [k \in DOMAIN indices |-> rows[indices[k] + 1]]

\* -------------------------------------------------------- impurity helpers

\* gini: 1 - sum_j (count[j]/n)^2, and 1 when n = 0
gini(countVector, n) ==
    IF n # 0 THEN Rat(n * n - SumSq(countVector), n * n) ELSE Rat(1, 1)

\* hist: the count vector divided by its total
hist(countVector) ==
    [i \in DOMAIN countVector |-> Rat(countVector[i], SumSeq(countVector))]

\* average: labels[0] + ... divided by labels.size()
average(labels) == Rat(SumSeq(labels), Len(labels))

\* totalSumOfSquares: sum of |labels[start+i] - sumLabel/length|^2, i < length.
\* The two throws are the value "throw".
totalSumOfSquares(labels, start, length, sumLabel) ==
    IF length < 1 \/ start + length > Len(labels) THEN "throw"
    ELSE Rat(SumSeq([i \in 1..length |->
                 (labels[start + i] * length - sumLabel)
               * (labels[start + i] * length - sumLabel)]),
             length * length)

\* createCountVector
createCountVector(rows, m_maxLabel) ==
    [c \in 1..(m_maxLabel + 1) |->
        Cardinality({i \in DOMAIN rows : rows[i].label = c - 1})]

\* ------------------------------------------------------- attribute tables

\* tableSort: v1.value < v2.value
tableSort(v1, v2) == v1.value < v2.value

\* std::sort(table.begin(), table.end(), tableSort) on column j: every
\* arrangement of the entries in which no entry precedes a smaller one
\* (std::sort is not stable, equal values come out in any order).
SortedColumns(rows, j) ==
    LET n == Len(rows)
        entry(i) == [value |-> rows[i + 1].x[j + 1], id |-> i]
    IN { [k \in 1..n |-> entry(p[k])] :
           p \in { q \in [1..n -> 0..(n - 1)] :
                     /\ \A a, b \in 1..n : a # b => q[a] # q[b]
                     /\ \A a \in 1..(n - 1) :
                          ~tableSort(entry(q[a + 1]), entry(q[a])) } }

\* createAttributeTables: the collections of tables it can produce
createAttributeTables(rows, m_inputDimension) ==
    { t \in [1..m_inputDimension -> UNION {SortedColumns(rows, j) :
                                        j \in 0..(m_inputDimension - 1)}] :
        \A j \in 1..m_inputDimension : t[j] \in SortedColumns(rows, j - 1) }

RECURSIVE SelectSeq2(_, _)
\* the subsequence of table whose ids are in keep
SelectSeq2(table, keep) ==
    IF table = <<>> THEN <<>>
    ELSE IF Head(table).id \in keep
         THEN <<Head(table)>> \o SelectSeq2(Tail(table), keep)
         ELSE SelectSeq2(Tail(table), keep)

SplitHashBefore(table, valIndex) ==
    [id \in {table[k].id : k \in DOMAIN table} |->
        \E k \in DOMAIN table : table[k].id = id /\ (k - 1) < valIndex]
\* the hash of splitAttributeTables: id -> (i <= valIndex); a later entry
\* with the same id overwrites an earlier one
SplitHash(table, valIndex) ==
    [id \in {table[k].id : k \in DOMAIN table} |->
        LET last == CHOOSE k \in DOMAIN table :
                       /\ table[k].id = id
                       /\ \A k2 \in DOMAIN table : table[k2].id = id => k2 <= k
        IN (last - 1) <= valIndex]

\* splitAttributeTables(tables, index, valIndex, LAttributeTables, RAttributeTables)
splitAttributeTables(tables, index, valIndex) ==
    LET hash == SplitHash(tables[index + 1], valIndex)
        \* hash[id] of an id that is no key inserts false
        side(id) == IF id \in DOMAIN hash THEN hash[id] ELSE FALSE
        left == {id \in DOMAIN hash : hash[id]}
        all(i) == {tables[i][k].id : k \in DOMAIN tables[i]}
    IN [L |-> [i \in DOMAIN tables |-> SelectSeq2(tables[i], left)],
        R |-> [i \in DOMAIN tables |->
                 SelectSeq2(tables[i], {id \in all(i) : ~side(id)})]]

\* ------------------------------------------------------------ split search
\* dataset.element(id).label of the tree's training set
LabelOf(data, id) == data[id + 1].label

\* never read before it is assigned (double bestAttributeVal; has no initialiser)
Unset == -1

ImprovesOrTies(impurity, bestImpurity) == ~RatLess(bestImpurity, impurity)
\* if(impurity<bestImpurity), line 317
Improves(impurity, bestImpurity) == RatLess(impurity, bestImpurity)

\* One iteration of  for(i = 1; i < n; ++i)  of the classification search,
\* lines 302-327, and the iterations after it.  steps is a history field:
\* the two count vectors after the update of each iteration.
RECURSIVE ScanClass(_, _, _, _, _, _)
ScanClass(st, table, data, attributeIndex, i, n) ==
    IF ~(i < n) THEN st
    ELSE
      LET prev == i - 1
          lab == LabelOf(data, table[prev + 1].id)
          cBelow == [st.cBelow EXCEPT ![lab + 1] = @ + 1]
          cTmpAbove == [st.cTmpAbove EXCEPT ![lab + 1] = @ - 1]
          st1 == [st EXCEPT !.cBelow = cBelow, !.cTmpAbove = cTmpAbove,
                            !.steps = Append(@, [cBelow |-> cBelow,
                                                 cTmpAbove |-> cTmpAbove])]
          n1 == i
          n2 == n - n1
          impurity == RatAdd(RatScale(n1, gini(cBelow, n1)),
                             RatScale(n2, gini(cTmpAbove, n2)))
          st2 == IF table[prev + 1].value # table[i + 1].value
                    /\ Improves(impurity, st1.bestImpurity)
                 THEN [st1 EXCEPT !.bestImpurity = impurity,
                                  !.bestAttributeIndex = attributeIndex,
                                  !.bestAttributeValIndex = prev,
                                  !.bestAttributeVal = table[prev + 1].value,
                                  !.cBestAbove = cTmpAbove,
                                  !.cBestBelow = cBelow]
                 ELSE st1
      IN ScanClass(st2, table, data, attributeIndex, i + 1, n)

\* for (std::size_t attributeIndex : tableIndicies), lines 299-328; order is
\* the remaining attribute indices in ascending order
RECURSIVE SearchClassLoop(_, _, _, _, _, _)
SearchClassLoop(st, order, tables, data, cAbove, n) ==
    IF order = <<>> THEN st
    ELSE
      LET attributeIndex == Head(order)
          st0 == [st EXCEPT !.cTmpAbove = cAbove,
                            !.cBelow = [c \in DOMAIN cAbove |-> 0]]
      IN SearchClassLoop(
           ScanClass(st0, tables[attributeIndex + 1], data, attributeIndex, 1, n),
           Tail(order), tables, data, cAbove, n)

FoundClassSwapped(st, n) ==
    [found |-> RatLess(st.bestImpurity, Rat(n + 1, 1)),
     bestImpurity |-> st.bestImpurity,
     bestAttributeIndex |-> st.bestAttributeIndex,
     bestAttributeValIndex |-> st.bestAttributeValIndex,
     bestAttributeVal |-> st.bestAttributeVal,
     lAgg |-> st.cBestAbove, rAgg |-> st.cBestBelow,
     scan |-> st.steps]
\* what the classification search leaves behind: if(bestImpurity<n+1), line
\* 330, and the locals the split uses
FoundClass(st, n) ==
    [found |-> RatLess(st.bestImpurity, Rat(n + 1, 1)),
     bestImpurity |-> st.bestImpurity,
     bestAttributeIndex |-> st.bestAttributeIndex,
     bestAttributeValIndex |-> st.bestAttributeValIndex,
     bestAttributeVal |-> st.bestAttributeVal,
     lAgg |-> st.cBestBelow, rAgg |-> st.cBestAbove,
     scan |-> st.steps]

\* the locals of the classification search before its loop, lines 285-297
StartClass(cAbove, zero, n) ==
    [bestImpurity |-> Rat(n + 1, 1),
     bestAttributeIndex |-> 0, bestAttributeValIndex |-> 0,
     bestAttributeVal |-> Unset,
     cBestAbove |-> zero, cBestBelow |-> zero,
     cBelow |-> zero, cTmpAbove |-> cAbove,
     steps |-> <<>>]

\* The classification split search of buildTree, lines 285-330.
SearchClass(tables, data, cAbove, tableIndicies, n) ==
    FoundClass(SearchClassLoop(
                 StartClass(cAbove, [c \in DOMAIN cAbove |-> 0], n),
                 Ascending(tableIndicies), tables, data, cAbove, n),
               n)

\* One iteration of  for(i = 1; i < n; i++)  of the regression search,
\* lines 436-457, and the iterations after it.  bestImpurity < 0 is "unset".
RECURSIVE ScanReg(_, _, _, _, _, _)
ScanReg(st, table, tmpLabels, attributeIndex, i, n) ==
    IF ~(i < n) THEN st
    ELSE
      LET prev == i - 1
          n1 == i
          n2 == n - n1
          tssL == totalSumOfSquares(tmpLabels, 0, n1, st.labelSumAbove)
          tssR == totalSumOfSquares(tmpLabels, n1, n2, st.labelSumBelow)
          \* (n1*tssL + n2*tssR) / (double) n
          sum == RatAdd(RatScale(n1, tssL), RatScale(n2, tssR))
          impurity == Rat(sum.num, sum.den * n)
          st1 == IF table[prev + 1].value # table[i + 1].value
                    /\ (RatLess(impurity, st.bestImpurity)
                          \/ RatLess(st.bestImpurity, Rat(0, 1)))
                 THEN [st EXCEPT !.doSplit = TRUE,
                                 !.bestImpurity = impurity,
                                 !.bestAttributeIndex = attributeIndex,
                                 !.bestAttributeValIndex = prev,
                                 !.bestAttributeVal = table[prev + 1].value,
                                 !.bestLabels = tmpLabels]
                 ELSE st
          st2 == [st1 EXCEPT !.labelSumAbove = @ + tmpLabels[i + 1],
                             !.labelSumBelow = @ - tmpLabels[i + 1]]
      IN ScanReg(st2, table, tmpLabels, attributeIndex, i + 1, n)

\* for (std::size_t attributeIndex : tableIndicies), lines 422-458
RECURSIVE SearchRegLoop(_, _, _, _, _)
SearchRegLoop(st, order, tables, data, n) ==
    IF order = <<>> THEN st
    ELSE
      LET attributeIndex == Head(order)
          table == tables[attributeIndex + 1]
          tmpLabels == [k \in DOMAIN table |-> LabelOf(data, table[k].id)]
          st0 == [st EXCEPT !.labelSumAbove = tmpLabels[1],
                            !.labelSumBelow = SumSeq(tmpLabels) - tmpLabels[1]]
      IN SearchRegLoop(ScanReg(st0, table, tmpLabels, attributeIndex, 1, n),
                       Tail(order), tables, data, n)

\* what the regression search leaves behind: doSplit and the locals the
\* split uses, with the labels of the two sides (lines 460-474)
FoundReg(st) ==
    [found |-> st.doSplit,
     bestImpurity |-> st.bestImpurity,
     bestAttributeIndex |-> st.bestAttributeIndex,
     bestAttributeValIndex |-> st.bestAttributeValIndex,
     bestAttributeVal |-> st.bestAttributeVal,
     lAgg |-> IF st.doSplit
              THEN SubSeq(st.bestLabels, 1, st.bestAttributeValIndex + 1)
              ELSE <<>>,
     rAgg |-> IF st.doSplit
              THEN SubSeq(st.bestLabels, st.bestAttributeValIndex + 2,
                          Len(st.bestLabels))
              ELSE <<>>]

\* The regression split search of buildTree and the split of the labels,
\* lines 405-474.
SearchReg(tables, data, tableIndicies, n) ==
    FoundReg(SearchRegLoop(
               [bestImpurity |-> Rat(-1, 1), doSplit |-> FALSE,
                bestAttributeIndex |-> 0, bestAttributeValIndex |-> 0,
                bestAttributeVal |-> Unset, bestLabels |-> <<>>,
                labelSumAbove |-> 0, labelSumBelow |-> 0],
               Ascending(tableIndicies), tables, data, n))

\* ------------------------------------------------------------------- state

VARIABLES
    rf,          \* the RFTrainer object: its m_ fields
    userSet,     \* history: the setters the user has called on the trainer
    model,       \* the RFClassifier passed to train: its list of members
    ensemble,    \* the RFClassifier's ensemble-level statistics
    dataset,     \* the rows of the dataset passed to the running train call
    pc,          \* the caller's position: "idle" or inside train ("parallel")
    run,         \* history: number of train calls made so far
    task,        \* per iteration b of SHARK_PARALLEL_FOR: its locals
    critical,    \* the iterations inside SHARK_CRITICAL_REGION
    randState,   \* the hidden state of rand()
    hst,         \* history of the running train call (no program state)
    scope,       \* the runs followed: how many train calls, of how many trees
    splitIO      \* arguments and results of a lone splitAttributeTables call

vars == <<rf, userSet, model, ensemble, dataset, pc, run, task, critical,
          randState, hst, scope, splitIO>>

\* ------------------------------------------------------------------ rand()
\* rand() and the std::random_shuffle behind boost::random_shuffle draw from
\* one process-wide generator: a linear congruential generator over
\* 0..RandPeriod-1 whose output is its state without the lowest bit.
RandMultiplier == 5
RandIncrement == 3
RandStep(s) == (RandMultiplier * s + RandIncrement) % RandPeriod
RandValue(s) == RandStep(s) \div 2

\* ------------------------------------------------------ trainer parameters

setMTry(t, mtry) == [t EXCEPT !.m_try = mtry]
setNTrees(t, nTrees) == [t EXCEPT !.m_B = nTrees]
setNodeSize(t, nodeSize) == [t EXCEPT !.m_nodeSize = nodeSize]
\* ratios are held in hundredths
setOOBratio(t, ratio) == [t EXCEPT !.m_OOBratio = ratio]

DefaultNTrees == 100
DefaultNodeSizeRegression == 5
DefaultNodeSizeClassification == 1
DefaultOOBratio == 66

DefaultMTry(regression, d) == IF regression THEN CeilThird(d) ELSE CeilSqrt(d)
DefaultNodeSize(regression) ==
    IF regression THEN DefaultNodeSizeRegression
    ELSE DefaultNodeSizeClassification

\* setDefaults, lines 61-85
setDefaults(t) ==
    LET t1 == IF t.m_try = 0
              THEN setMTry(t, DefaultMTry(t.m_regressionLearner, t.m_inputDimension))
              ELSE t
        t2 == IF t1.m_B = 0 THEN setNTrees(t1, DefaultNTrees) ELSE t1
        t3 == IF t2.m_nodeSize = 0
              THEN setNodeSize(t2, DefaultNodeSize(t2.m_regressionLearner))
              ELSE t2
    IN IF t3.m_OOBratio <= 0 \/ t3.m_OOBratio > 100
       THEN setOOBratio(t3, DefaultOOBratio)
       ELSE t3

\* RFTrainer::RFTrainer, lines 50-58 (m_inputDimension and m_maxLabel are
\* written by train before anything reads them)
Constructor(computeFeatureImportances, computeOOBerror) ==
    [m_try |-> 0, m_B |-> 0, m_nodeSize |-> 0, m_OOBratio |-> 0,
     m_regressionLearner |-> FALSE,
     m_computeFeatureImportances |-> computeFeatureImportances,
     m_computeOOBerror |-> computeOOBerror,
     m_inputDimension |-> 0, m_maxLabel |-> 0]

\* static_cast<std::size_t>(dataset.numberOfElements()*m_OOBratio)
SubsetSize(n, ratio) == (n * ratio) \div 100

\* --------------------------------------------------------------- buildTree
\* A call of buildTree is a frame of the iteration's call stack:
\*   tables, agg, nodeId   the arguments (agg: cAbove or labels)
\*   st                    "enter": at the leaf test; "draw": inside
\*                         generateRandomTableIndicies; "left"/"right":
\*                         waiting for the recursive call on that side
\*   tableIndicies         the std::set being filled
\*   info                  nodeInfo; rows (the row ids of the node) is a
\*                         history field, not part of NodeInfo
\*   rTables, rAgg, lTree  locals kept across the recursive calls

Frame(tables, agg, nodeId) ==
    [tables |-> tables, agg |-> agg, nodeId |-> nodeId, st |-> "enter",
     tableIndicies |-> {}, info |-> <<>>, rTables |-> <<>>, rAgg |-> <<>>,
     lTree |-> <<>>]

\* nodeInfo as initialised at lines 266-275 and 384-394
NodeInfo(nodeId, label, tables) ==
    [nodeId |-> nodeId, attributeIndex |-> 0, attributeValue |-> 0,
     leftNodeId |-> 0, rightNodeId |-> 0, label |-> label,
     rows |-> IF tables = <<>> THEN {}
              ELSE {tables[1][k].id : k \in DOMAIN tables[1]}]

LeftChildId(nodeId) == Wrap(2 * nodeId + 1)
RightChildId(nodeId) == Wrap(2 * nodeId + 2)

\* tree.push_back(nodeInfo); tree.insert(lTree); tree.insert(rTree)
JoinTreeRightFirst(info, lTree, rTree) == <<info>> \o rTree \o lTree
JoinTree(info, lTree, rTree) == <<info>> \o lTree \o rTree

\* A call returns tree to its caller: the frame is popped; a caller waiting
\* for its left subtree goes on to the recursive call on the right, one
\* waiting for its right subtree assembles its own tree and returns in turn.
RECURSIVE Return(_, _)
Return(stack, tree) ==
    LET rest == SubSeq(stack, 1, Len(stack) - 1)
    IN IF rest = <<>> THEN [stack |-> <<>>, tree |-> tree, done |-> TRUE]
       ELSE
         LET caller == rest[Len(rest)]
         IN IF caller.st = "left"
            THEN [stack |->
                    [rest EXCEPT ![Len(rest)] =
                        [caller EXCEPT !.st = "right", !.lTree = tree,
                                       !.rTables = <<>>, !.rAgg = <<>>]]
                    \o <<Frame(caller.rTables, caller.rAgg,
                               caller.info.rightNodeId)>>,
                  tree |-> <<>>, done |-> FALSE]
            ELSE Return(rest, JoinTree(caller.info, caller.lTree, tree))

IsLeafBelowNodeSize(regression, agg, n, m_nodeSize) ==
    IF regression THEN n < m_nodeSize
    ELSE RatEq(gini(agg, n), Rat(0, 1)) \/ n < m_nodeSize
\* the leaf test of buildTree: line 281 (classification), line 401 (regression)
IsLeafAtEntry(regression, agg, n, m_nodeSize) ==
    IF regression THEN n <= m_nodeSize
    ELSE RatEq(gini(agg, n), Rat(0, 1)) \/ n <= m_nodeSize

\* the label of a node on entry: regression sets average(labels) at line 391,
\* classification leaves it empty until the node turns out to be a leaf
EntryLabel(regression, agg) == IF regression THEN average(agg) ELSE <<>>
\* line 354: nodeInfo.label = hist(cAbove) in a classification leaf
LeafLabel(regression, agg, label) == IF regression THEN label ELSE hist(agg)

\* while(tableIndicies.size() < m_try), line 568
DrawsMore(tableIndicies, m_try) == Cardinality(tableIndicies) < m_try

SplitInfoNoThreshold(info, nodeId, found) ==
    [info EXCEPT !.attributeIndex = found.bestAttributeIndex,
                 !.leftNodeId = LeftChildId(nodeId),
                 !.rightNodeId = RightChildId(nodeId)]
\* nodeInfo of a node that is split, lines 336-339 / 476-479
SplitInfo(info, nodeId, found) ==
    [info EXCEPT !.attributeIndex = found.bestAttributeIndex,
                 !.attributeValue = found.bestAttributeVal,
                 !.leftNodeId = LeftChildId(nodeId),
                 !.rightNodeId = RightChildId(nodeId)]

\* the frame of a split node while its left call runs, and the frame of
\* the left call, lines 331-341 / 461-482
SplitFrames(fr, found, parts) ==
    << [fr EXCEPT !.st = "left",
                  !.info = SplitInfo(fr.info, fr.nodeId, found),
                  !.tables = <<>>,
                  !.rTables = parts.R, !.rAgg = found.rAgg],
       Frame(parts.L, found.lAgg, LeftChildId(fr.nodeId)) >>

\* the node split at the boundary the search found
SplitAt(fr, found) ==
    [found |-> found.found,
     search |-> found,
     frames |-> SplitFrames(fr, found,
                   splitAttributeTables(fr.tables, found.bestAttributeIndex,
                                        found.bestAttributeValIndex))]

\* the split search, and the node split when a split was found: the frame
\* after lines 330-342 / 460-483 together with the frame of the left call
SplitNode(fr, data, regression) ==
    SplitAt(fr, IF regression
                THEN SearchReg(fr.tables, data, fr.tableIndicies,
                               Len(fr.tables[1]))
                ELSE SearchClass(fr.tables, data, fr.agg, fr.tableIndicies,
                                 Len(fr.tables[1])))

\* ------------------------------------------------------------ the ensemble
\* RFClassifier is the caller's object: a list of members and the
\* ensemble-level statistics.  A member is the CARTClassifier built by one
\* iteration; run and b (the train call and iteration that built it) are
\* history fields.

keepModels(m) == m
clearModels(m) == <<>>
addModelTwice(m, cart) == Append(Append(m, cart), cart)
addModel(m, cart) == Append(m, cart)

NoStatistics == [oob |-> <<>>, importances |-> <<>>]
\* model.computeOOBerror() / model.computeFeatureImportances(): the
\* statistics record over how many members they aggregated
computeOOBerror(e, m) == [e EXCEPT !.oob = <<Len(m)>>]
computeFeatureImportances(e, m) == [e EXCEPT !.importances = <<Len(m)>>]

\* ---------------------------------------------------------- the iterations

Trees == 0..(MaxTrees - 1)

\* seen, oob and cart are empty or hold one value; search is a history
\* field: the arguments and the result of the iteration's last split search
Off == [pc |-> "off", subsetIndices |-> <<>>, i |-> 0, seen |-> <<>>,
        erased |-> <<>>, data |-> <<>>, oob |-> <<>>, stack |-> <<>>,
        tree |-> <<>>, cart |-> <<>>, search |-> <<>>]

\* the first statements of the loop body, lines 191-192: iota
Forked(n) == [Off EXCEPT !.pc = "shuffle",
                         !.subsetIndices = [k \in 1..n |-> k - 1],
                         !.i = 1]

Top(b) == task[b].stack[Len(task[b].stack)]

\* the iteration is about to call rand()
AtRand(b) ==
    \/ task[b].pc = "shuffle" /\ task[b].i < Len(task[b].subsetIndices)
    \/ /\ task[b].pc = "build"
       /\ Top(b).st = "draw"
       /\ DrawsMore(Top(b).tableIndicies, rf.m_try)

\* rand() reads the generator's state ...
TaskRandLoad(b) ==
    /\ AtRand(b)
    /\ task[b].seen = <<>>
    /\ task' = [task EXCEPT ![b].seen = <<randState>>]
    /\ UNCHANGED <<rf, userSet, model, ensemble, dataset, pc, run, critical,
                   randState, hst, scope, splitIO>>

\* ... and writes the next state back, returning the value drawn.
\* One iteration of std::random_shuffle (line 193):
\*   swap(v[i], v[rand() % (i + 1)])
TaskShuffle(b) ==
    /\ task[b].pc = "shuffle"
    /\ task[b].seen # <<>>
    /\ LET i == task[b].i
           j == RandValue(task[b].seen[1]) % (i + 1)
           v == task[b].subsetIndices
       IN task' = [task EXCEPT ![b].subsetIndices =
                                   [v EXCEPT ![i + 1] = v[j + 1],
                                             ![j + 1] = v[i + 1]],
                               ![b].i = i + 1,
                               ![b].seen = <<>>]
    /\ randState' = RandStep(task[b].seen[1])
    /\ UNCHANGED <<rf, userSet, model, ensemble, dataset, pc, run, critical,
                   hst, scope, splitIO>>

\* the aggregate passed to the root call: createCountVector(dataTrain)
\* (line 206) or the labels of dataTrain (lines 130-133)
RootAggregate(regression, data, m_maxLabel) ==
    IF regression THEN [k \in DOMAIN data |-> data[k].label]
    ELSE createCountVector(data, m_maxLabel)

\* lines 196-206: the bag is the first subsetSize entries; dataTrain and its
\* attribute tables are created and the root call of buildTree is made
TaskCreateTables(b) ==
    /\ task[b].pc = "shuffle"
    /\ ~(task[b].i < Len(task[b].subsetIndices))
    /\ LET subsetSize == SubsetSize(Len(dataset), rf.m_OOBratio)
           kept == SubSeq(task[b].subsetIndices, 1, subsetSize)
           dataTrain == subset(dataset, kept)
       IN \E tables \in createAttributeTables(dataTrain, rf.m_inputDimension) :
            task' = [task EXCEPT
                       ![b].pc = "build",
                       ![b].subsetIndices = kept,
                       ![b].erased = SubSeq(task[b].subsetIndices,
                                            subsetSize + 1,
                                            Len(task[b].subsetIndices)),
                       ![b].data = dataTrain,
                       ![b].stack =
                          <<Frame(tables,
                                  RootAggregate(rf.m_regressionLearner,
                                                dataTrain, rf.m_maxLabel),
                                  0)>>]
    /\ UNCHANGED <<rf, userSet, model, ensemble, dataset, pc, run, critical,
                   randState, hst, scope, splitIO>>

\* what a returning call leaves in the iteration
Returned(t, b, ret) ==
    [t EXCEPT ![b].stack = ret.stack,
              ![b].tree = ret.tree,
              ![b].pc = IF ret.done THEN "built" ELSE "build"]

\* average(labels) of an empty labels vector reads labels[0] past the end
\* and divides by labels.size() = 0: the value read is undefined, the
\* quotient is a NaN or an infinity (a fraction with den = 0)
UndefinedAverages == {Rat(0, 0), Rat(1, 0), Rat(0 - 1, 0)}

\* the values nodeInfo.label can hold after nodeInfo.label = average(labels)
EntryLabels(regression, agg) ==
    IF regression /\ agg = <<>> THEN UndefinedAverages
    ELSE {EntryLabel(regression, agg)}

\* buildTree up to the leaf test, lines 266-283 / 384-403
TaskEnter(b) ==
    /\ task[b].pc = "build"
    /\ Top(b).st = "enter"
    /\ \E label \in EntryLabels(rf.m_regressionLearner, Top(b).agg) :
       LET fr == Top(b)
           n == Len(fr.tables[1])
           info == NodeInfo(fr.nodeId, label, fr.tables)
       IN IF IsLeafAtEntry(rf.m_regressionLearner, fr.agg, n, rf.m_nodeSize)
          THEN task' = Returned(task, b,
                  Return(task[b].stack,
                         <<[info EXCEPT !.label =
                              LeafLabel(rf.m_regressionLearner, fr.agg, @)]>>))
          ELSE task' = [task EXCEPT ![b].stack[Len(task[b].stack)] =
                          [fr EXCEPT !.st = "draw", !.info = info]]
    /\ UNCHANGED <<rf, userSet, model, ensemble, dataset, pc, run, critical,
                   randState, hst, scope, splitIO>>

\* one iteration of the loop of generateRandomTableIndicies, lines 568-570:
\*   tableIndicies.insert(rand() % m_inputDimension)
TaskDraw(b) ==
    /\ task[b].pc = "build"
    /\ Top(b).st = "draw"
    /\ task[b].seen # <<>>
    /\ task' = [task EXCEPT
                  ![b].stack[Len(task[b].stack)].tableIndicies =
                      @ \cup {RandValue(task[b].seen[1]) % rf.m_inputDimension},
                  ![b].seen = <<>>]
    /\ randState' = RandStep(task[b].seen[1])
    /\ UNCHANGED <<rf, userSet, model, ensemble, dataset, pc, run, critical,
                   hst, scope, splitIO>>

\* the split search and what follows it, lines 299-346 / 422-487: the node is
\* split and the left call made, or the node is a leaf and the call returns
SearchRecord(fr, split) ==
    <<[tables |-> fr.tables, agg |-> fr.agg,
       tableIndicies |-> fr.tableIndicies, result |-> split.search]>>

AfterSplit(t, b, fr, split) ==
    IF split.found
    THEN [t EXCEPT ![b].search = SearchRecord(fr, split),
                   ![b].stack = SubSeq(@, 1, Len(@) - 1) \o split.frames]
    ELSE Returned([t EXCEPT ![b].search = SearchRecord(fr, split)], b,
            Return(t[b].stack,
                   <<[fr.info EXCEPT !.label =
                        LeafLabel(rf.m_regressionLearner, fr.agg, @)]>>))

AfterSearch(b) ==
    AfterSplit(task, b, Top(b),
               SplitNode(Top(b), task[b].data, rf.m_regressionLearner))

TaskSearch(b) ==
    /\ task[b].pc = "build"
    /\ Top(b).st = "draw"
    /\ ~DrawsMore(Top(b).tableIndicies, rf.m_try)
    /\ task' = AfterSearch(b)
    /\ UNCHANGED <<rf, userSet, model, ensemble, dataset, pc, run, critical,
                   randState, hst, scope, splitIO>>

\* std::vector<std::size_t> subsetIndicesOOB(oobStart, oobEnd), line 140/213:
\* both iterators were invalidated by subsetIndices.erase(oobStart, oobEnd)
\* (line 123/200), so the read is undefined: it may find the erased entries
\* still in place or anything else.  The values read are kept within the
\* row indices, as subset() needs.
ReadErased(erased, n) == [DOMAIN erased -> 0..(n - 1)]

\* lines 209-223: the tree is wrapped as a CARTClassifier; with either
\* statistic asked for, the OOB sample is materialised and evaluated
TaskOOB(b) ==
    /\ task[b].pc = "built"
    /\ LET cart == [tree |-> task[b].tree, run |-> run, b |-> b,
                    oob |-> IF rf.m_computeFeatureImportances
                            THEN "importances"
                            ELSE IF rf.m_computeOOBerror THEN "error"
                            ELSE "none"]
       IN IF rf.m_computeOOBerror \/ rf.m_computeFeatureImportances
          THEN \E subsetIndicesOOB \in ReadErased(task[b].erased, Len(dataset)) :
                 task' = [task EXCEPT ![b].pc = "wait", ![b].cart = <<cart>>,
                                      ![b].tree = <<>>,
                                      ![b].oob = <<subsetIndicesOOB>>]
          ELSE task' = [task EXCEPT ![b].pc = "wait", ![b].cart = <<cart>>,
                                    ![b].tree = <<>>]
    /\ UNCHANGED <<rf, userSet, model, ensemble, dataset, pc, run, critical,
                   randState, hst, scope, splitIO>>

\* SHARK_CRITICAL_REGION (#pragma omp critical): one iteration at a time
CriticalRegionFree == critical = {}

\* entering the critical region, line 225
TaskEnterCritical(b) ==
    /\ task[b].pc = "wait"
    /\ CriticalRegionFree
    /\ critical' = critical \cup {b}
    /\ task' = [task EXCEPT ![b] = [Off EXCEPT !.pc = "critical",
                                               !.cart = task[b].cart]]
    /\ UNCHANGED <<rf, userSet, model, ensemble, dataset, pc, run,
                   randState, hst, scope, splitIO>>

\* model.addModel(cart) and the end of the critical region and of the loop
\* body, lines 226-228
TaskAddModel(b) ==
    /\ task[b].pc = "critical"
    /\ model' = addModel(model, task[b].cart[1])
    /\ critical' = critical \ {b}
    /\ task' = [task EXCEPT ![b] = [Off EXCEPT !.pc = "done"]]
    /\ UNCHANGED <<rf, userSet, ensemble, dataset, pc, run, randState, hst,
                   scope, splitIO>>

\* ------------------------------------------------------------- the caller

\* the user's calls of the setters, between training runs
SetMTry(mtry) ==
    /\ pc = "idle"
    /\ rf' = setMTry(rf, mtry)
    /\ userSet' = userSet \cup {"mTry"}
    /\ UNCHANGED <<model, ensemble, dataset, pc, run, task, critical,
                   randState, hst, scope, splitIO>>

SetNTrees(nTrees) ==
    /\ pc = "idle"
    /\ rf' = setNTrees(rf, nTrees)
    /\ userSet' = userSet \cup {"nTrees"}
    /\ UNCHANGED <<model, ensemble, dataset, pc, run, task, critical,
                   randState, hst, scope, splitIO>>

SetNodeSize(nodeSize) ==
    /\ pc = "idle"
    /\ rf' = setNodeSize(rf, nodeSize)
    /\ userSet' = userSet \cup {"nodeSize"}
    /\ UNCHANGED <<model, ensemble, dataset, pc, run, task, critical,
                   randState, hst, scope, splitIO>>

SetOOBratio(ratio) ==
    /\ pc = "idle"
    /\ rf' = setOOBratio(rf, ratio)
    /\ userSet' = userSet \cup {"OOBratio"}
    /\ UNCHANGED <<model, ensemble, dataset, pc, run, task, critical,
                   randState, hst, scope, splitIO>>

\* Either MaxRuns successive training runs of one tree each are followed, or
\* one training run of up to MaxTrees trees.
Scopes == {[runs |-> MaxRuns, trees |-> 1], [runs |-> 1, trees |-> MaxTrees]}

\* train up to the parallel loop, lines 90-111 / 169-188.  The loop runs
\* iterations b = 0 .. m_B-1.
TrainHead(rows, regression) ==
    LET d == inputDimension(rows)
        t == setDefaults([rf EXCEPT
                 !.m_inputDimension = d,
                 !.m_maxLabel = IF regression THEN @
                                ELSE numberOfClasses(rows) - 1,
                 !.m_regressionLearner = regression])
    IN /\ pc = "idle"
       /\ run < scope.runs
       /\ t.m_B <= scope.trees
       /\ rf' = t
       /\ model' = clearModels(model)
       /\ ensemble' = NoStatistics
       /\ dataset' = rows
       /\ run' = run + 1
       /\ task' = [b \in Trees |-> IF b < t.m_B THEN Forked(Len(rows)) ELSE Off]
       /\ pc' = "parallel"
       /\ hst' = [hst EXCEPT !.seed = randState]
       /\ UNCHANGED <<userSet, critical, randState, scope, splitIO>>

\* The datasets handed to train: TrainRows rows over d features, feature 0
\* increasing along the rows and the later features with ties; the labels
\* go round 0..MaxLabel.
TrainSets ==
    { [i \in 1..TrainRows |->
         [x |-> [j \in 1..d |-> IF j = 1 THEN i - 1 ELSE (i - 1) \div 2],
          label |-> (i - 1) % (MaxLabel + 1)]] :
        d \in 1..MaxDim }

\* train(RFClassifier&, ClassificationDataset const&), lines 167-188
TrainClassification == \E rows \in TrainSets : TrainHead(rows, FALSE)

\* train(RFClassifier&, RegressionDataset const&), lines 88-111
TrainRegression == \E rows \in TrainSets : TrainHead(rows, TRUE)

\* the members of the model, by the iteration that built them
TreesBuilt(m) == {[b |-> m[k].b, tree |-> m[k].tree] : k \in DOMAIN m}

\* The end of the parallel loop (all iterations have ended) and the rest of
\* train, lines 228-239 / 155-164.
AllIterationsEnded == \A b \in Trees : task[b].pc \in {"off", "done"}

TrainTail ==
    /\ pc = "parallel"
    /\ AllIterationsEnded
    /\ LET e1 == IF rf.m_computeOOBerror
                 THEN computeOOBerror(ensemble, model) ELSE ensemble
       IN ensemble' = IF rf.m_computeFeatureImportances
                      THEN computeFeatureImportances(e1, model) ELSE e1
    /\ pc' = "idle"
    /\ task' = [b \in Trees |-> Off]
    /\ UNCHANGED <<rf, userSet, model, dataset, run, critical, randState,
                   hst, scope, splitIO>>

\* ------------------------------------------------------- the training runs

\* the ratios the user sets, in hundredths: the whole dataset, and a ratio
\* under which floor(n * ratio) is 0 for the datasets of TrainSets
Ratios == {40, 100}

Init ==
    /\ \E imp \in BOOLEAN, err \in BOOLEAN : rf = Constructor(imp, err)
    /\ userSet = {}
    /\ model = <<>>
    /\ ensemble = NoStatistics
    /\ dataset = <<>>
    /\ pc = "idle"
    /\ run = 0
    /\ task = [b \in Trees |-> Off]
    /\ critical = {}
    /\ randState \in 0..MaxSeed
    /\ scope \in Scopes
    /\ hst = [seed |-> 0]
    /\ splitIO = <<>>

TaskStep(b) ==
    \/ TaskRandLoad(b)
    \/ TaskShuffle(b)
    \/ TaskCreateTables(b)
    \/ TaskEnter(b)
    \/ TaskDraw(b)
    \/ TaskSearch(b)
    \/ TaskOOB(b)
    \/ TaskEnterCritical(b)
    \/ TaskAddModel(b)

Next ==
    \/ \E mtry \in 1..MaxDim : SetMTry(mtry)
    \/ \E nTrees \in 1..MaxTrees : SetNTrees(nTrees)
    \/ \E nodeSize \in 1..MaxNodeSize : SetNodeSize(nodeSize)
    \/ \E ratio \in Ratios : SetOOBratio(ratio)
    \/ TrainClassification
    \/ TrainRegression
    \/ \E b \in Trees : TaskStep(b)
    \/ TrainTail

Spec == Init /\ [][Next]_vars

\* ------------------------------------------------- the growth of one tree
\* One iteration of the loop from its call of buildTree on: dataTrain is any
\* training set of up to MaxRows rows over up to MaxDim features (rows that
\* differ only in their order are taken once), the trainer holds any m_try
\* the draw can satisfy and any node size up to TreeNodeSize.

\* the feature values of these training sets: none of them is the 0.0 that
\* nodeInfo.attributeValue starts with
TreeValues == 1..(MaxVal + 1)

RowCode(r) ==
    r.label + (MaxLabel + 1) * SumSeq([j \in DOMAIN r.x |-> r.x[j] * Pow2(2 * (j - 1))])

TreeSets ==
    UNION { { rows \in [1..n -> [x : [1..d -> TreeValues], label : 0..MaxLabel]] :
                \A i \in 1..(n - 1) : RowCode(rows[i]) <= RowCode(rows[i + 1]) } :
            n \in 1..MaxRows, d \in 1..MaxDim }

InitTree ==
    /\ \E rows \in TreeSets, regression \in BOOLEAN :
         \E mtry \in 1..inputDimension(rows), nodeSize \in 1..TreeNodeSize :
           /\ rf = [Constructor(FALSE, FALSE) EXCEPT
                      !.m_try = mtry, !.m_B = 1, !.m_nodeSize = nodeSize,
                      !.m_OOBratio = 100,
                      !.m_regressionLearner = regression,
                      !.m_inputDimension = inputDimension(rows),
                      !.m_maxLabel = IF regression THEN 0
                                     ELSE numberOfClasses(rows) - 1]
           /\ dataset = rows
           /\ \E tables \in createAttributeTables(rows, inputDimension(rows)) :
                task = [b \in Trees |->
                          IF b = 0
                          THEN [Off EXCEPT
                                  !.pc = "build", !.data = rows,
                                  !.stack = <<Frame(tables,
                                      RootAggregate(regression, rows,
                                                    numberOfClasses(rows) - 1),
                                      0)>>]
                          ELSE Off]
    /\ userSet = {"mTry", "nTrees", "nodeSize", "OOBratio"}
    /\ model = <<>>
    /\ ensemble = NoStatistics
    /\ pc = "parallel"
    /\ run = 1
    /\ critical = {}
    /\ randState \in 0..MaxSeed
    /\ hst = [seed |-> randState]
    /\ scope = [runs |-> 1, trees |-> 1]
    /\ splitIO = <<>>

NextTree ==
    \/ TaskRandLoad(0)
    \/ TaskEnter(0)
    \/ TaskDraw(0)
    \/ TaskSearch(0)

TreeSpec == InitTree /\ [][NextTree]_vars

\* ------------------------------------------ splitAttributeTables on its own
\* A call of splitAttributeTables on any d tables over the row ids 0..n-1,
\* each sorted ascending by value, with any index and valIndex in range.

SortedTables(n) ==
    { t \in [1..n -> [value : 0..MaxVal, id : 0..(n - 1)]] :
        /\ \A a, b \in 1..n : a # b => t[a].id # t[b].id
        /\ \A a \in 1..(n - 1) : t[a].value <= t[a + 1].value }

InitSplit ==
    /\ \E n \in 1..MaxRows, d \in 1..MaxDim :
         \E tables \in [1..d -> SortedTables(n)] :
           \E index \in 0..(d - 1), valIndex \in 0..(n - 1) :
             splitIO = <<[tables |-> tables, index |-> index,
                          valIndex |-> valIndex]>>
    /\ rf = Constructor(FALSE, FALSE)
    /\ userSet = {}
    /\ model = <<>>
    /\ ensemble = NoStatistics
    /\ dataset = <<>>
    /\ pc = "idle"
    /\ run = 0
    /\ task = [b \in Trees |-> Off]
    /\ critical = {}
    /\ randState = 0
    /\ hst = [seed |-> 0]
    /\ scope = [runs |-> 0, trees |-> 0]

CallSplit ==
    /\ Len(splitIO) = 1
    /\ splitIO' = Append(splitIO,
                     splitAttributeTables(splitIO[1].tables, splitIO[1].index,
                                          splitIO[1].valIndex))
    /\ UNCHANGED <<rf, userSet, model, ensemble, dataset, pc, run, task,
                   critical, randState, hst, scope>>

NextSplit == CallSplit

SplitSpec == InitSplit /\ [][NextSplit]_vars

\* ------------------------------------------------------------- properties

IsSorted(table) == \A k \in 1..(Len(table) - 1) : table[k].value <= table[k + 1].value
Ids(table) == {table[k].id : k \in DOMAIN table}

\* s is t with some entries left out
RECURSIVE IsSubsequence(_, _)
IsSubsequence(s, t) ==
    IF s = <<>> THEN TRUE
    ELSE IF t = <<>> THEN FALSE
    ELSE IF Head(s) = Head(t) THEN IsSubsequence(Tail(s), Tail(t))
    ELSE IsSubsequence(s, Tail(t))

\* an iteration is inside generateRandomTableIndicies
Drawing(b) == task[b].pc = "build" /\ Top(b).st = "draw"

\* the draw of an iteration wants more distinct feature indices than there
\* are: the loop of generateRandomTableIndicies has no exit left
DrawCannotFinish(b) == Drawing(b) /\ rf.m_try > rf.m_inputDimension

\* C1: every call of train returns, whatever setters and earlier runs came
\* before it; in particular every draw of m_try distinct feature indices out
\* of 0..m_inputDimension-1 finishes.  No iteration is ever inside a draw
\* that cannot finish.
C1_EveryDrawCanFinish == \A b \in Trees : ~DrawCannotFinish(b)

\* An iteration inside a draw that cannot finish stays inside it, and train
\* does not return.
DrawNeverEnds ==
    [][\A b \in Trees :
         DrawCannotFinish(b) => (DrawCannotFinish(b))' /\ pc' = "parallel"]_vars

\* C2: in a training run on a trainer whose setMTry was never called,
\* m_try is the default for this run's input dimension and task type, and
\* on a trainer whose setNodeSize was never called m_nodeSize is the default
\* for this run's task type.
C2_DefaultsOfThisRun ==
    pc = "parallel" =>
      /\ "mTry" \notin userSet =>
            rf.m_try = DefaultMTry(rf.m_regressionLearner, rf.m_inputDimension)
      /\ "nodeSize" \notin userSet =>
            rf.m_nodeSize = DefaultNodeSize(rf.m_regressionLearner)

\* the iterations that are inside rand(): the generator's state read, the
\* next state not yet written back
InsideRand == {b \in Trees : task[b].seen # <<>>}

\* std::random_shuffle of v drawing from a generator in state s, run on its
\* own from position i on
RECURSIVE random_shuffle(_, _, _)
random_shuffle(v, i, s) ==
    IF ~(i < Len(v)) THEN v
    ELSE LET j == RandValue(s) % (i + 1)
         IN random_shuffle([v EXCEPT ![i + 1] = v[j + 1], ![j + 1] = v[i + 1]],
                           i + 1, RandStep(s))

\* C3: no two iterations are inside the random generator at once, and with
\* the generator's state at the start of the run fixed, the bagging
\* permutation of iteration 0 is the same under every interleaving: the one
\* it draws when it runs before all others.
C3_OwnStreamPerTask ==
    /\ Cardinality(InsideRand) <= 1
    /\ (task[0].pc = "shuffle" /\ ~(task[0].i < Len(task[0].subsetIndices))) =>
          task[0].subsetIndices =
              random_shuffle([k \in 1..Len(dataset) |-> k - 1], 1, hst.seed)

\* the members of the model appended by iteration b of the current run
AppendedBy(b) == {k \in DOMAIN model : model[k].run = run /\ model[k].b = b}

\* C4: at most one iteration is inside model.addModel at a time, and the
\* model holds the member of an iteration exactly once from the moment the
\* iteration has left the critical region, and not at all before.
C4_AppendOnceUnderExclusion ==
    /\ Cardinality({b \in Trees : task[b].pc = "critical"}) <= 1
    /\ pc = "parallel" =>
          \A b \in Trees :
            Cardinality(AppendedBy(b)) = IF task[b].pc = "done" THEN 1 ELSE 0

\* one iteration is appending its tree while the other, its tree built,
\* waits for the critical region
C4_Witness ==
    /\ task[0].pc = "wait"
    /\ task[1].pc = "critical"
    /\ critical = {1}
    /\ model = <<>>

\* the model at the end of a run of B trees: B members, one of each
\* iteration, all built in this run
HoldsThisRun(m, B) ==
    /\ Len(m) = B
    /\ \A k \in DOMAIN m : m[k].run = run
    /\ {m[k].b : k \in DOMAIN m} = 0..(B - 1)

\* C5: while the iterations run no ensemble-level statistic has been
\* computed and the model holds members of this run only; when train
\* returns the model holds exactly m_B members, all built in this run, and
\* each statistic asked for was aggregated over these m_B members.
C5_AggregationAfterAllAppended ==
    /\ [](pc = "parallel" =>
            /\ ensemble = NoStatistics
            /\ \A k \in DOMAIN model : model[k].run = run)
    /\ [][(pc = "parallel" /\ pc' = "idle") =>
            /\ HoldsThisRun(model, rf.m_B)
            /\ model' = model
            /\ ensemble'.oob =
                  (IF rf.m_computeOOBerror THEN <<rf.m_B>> ELSE <<>>)
            /\ ensemble'.importances =
                  (IF rf.m_computeFeatureImportances THEN <<rf.m_B>> ELSE <<>>)]_vars

\* a run of two trees has returned with both statistics aggregated over
\* the two members
C5_Witness ==
    /\ pc = "idle"
    /\ run = 1
    /\ Len(model) = 2
    /\ ensemble.oob = <<2>>
    /\ ensemble.importances = <<2>>

IsPermutation(v, n) == Len(v) = n /\ {v[k] : k \in DOMAIN v} = 0..(n - 1)

\* C6: the training bag of an iteration is the first floor(n * m_OOBratio)
\* entries of a permutation of 0..n-1, and the OOB sample, once it has been
\* materialised, is the rest of that permutation: bag followed by OOB sample
\* is a permutation of 0..n-1.
C6_BagAndOOBPartition ==
    \A b \in Trees :
      LET n == Len(dataset)
          bag == task[b].subsetIndices
      IN /\ task[b].pc \in {"build", "built", "wait"} =>
              /\ Len(bag) = SubsetSize(n, rf.m_OOBratio)
              /\ IsPermutation(bag \o task[b].erased, n)
         /\ task[b].oob # <<>> =>
              /\ task[b].oob[1] = task[b].erased
              /\ IsPermutation(bag \o task[b].oob[1], n)

\* C8: splitAttributeTables on d sorted tables over the same n distinct row
\* ids, 0 <= valIndex < n: for every feature i the left and right tables are
\* subsequences of tables[i] (so both stay sorted), the left table holds
\* exactly the rows at positions <= valIndex of tables[index] and the right
\* table the others, |left[i]| = valIndex+1 and |left[i]| + |right[i]| = n.
C8_SplitKeepsOrderAndRows ==
    Len(splitIO) = 2 =>
      LET in == splitIO[1]
          out == splitIO[2]
          n == Len(in.tables[1])
          winner == in.tables[in.index + 1]
          leftIds == {winner[k].id : k \in 1..(in.valIndex + 1)}
      IN \A i \in DOMAIN in.tables :
           /\ IsSubsequence(out.L[i], in.tables[i])
           /\ IsSubsequence(out.R[i], in.tables[i])
           /\ IsSorted(out.L[i]) /\ IsSorted(out.R[i])
           /\ Ids(out.L[i]) = leftIds
           /\ Ids(out.R[i]) = Ids(in.tables[i]) \ leftIds
           /\ Len(out.L[i]) = in.valIndex + 1
           /\ Len(out.L[i]) + Len(out.R[i]) = n

\* a split of two features' tables, ordered differently, into two non-empty
\* sides at a boundary inside a run of equal values
C8_Witness ==
    /\ Len(splitIO) = 2
    /\ Len(splitIO[1].tables) = 2
    /\ splitIO[1].index = 1
    /\ Len(splitIO[1].tables[1]) = 3
    /\ splitIO[1].valIndex = 1
    /\ splitIO[1].tables[1] # splitIO[1].tables[2]
    /\ splitIO[1].tables[2][2].value = splitIO[1].tables[2][3].value
    /\ Len(splitIO[2].R[1]) = 1

\* the leaves and the internal nodes of a flattened tree
IsLeafNode(node) == node.leftNodeId = 0 /\ node.rightNodeId = 0

\* t is the preorder sequence of a tree whose root has id nodeId: a single
\* leaf, or an internal node with the children ids 2*nodeId+1 and 2*nodeId+2
\* followed by the whole left and then the whole right subtree
RECURSIVE IsPreorder(_, _)
IsPreorder(t, nodeId) ==
    /\ Len(t) >= 1
    /\ t[1].nodeId = nodeId
    /\ IF Len(t) = 1 THEN IsLeafNode(t[1])
       ELSE /\ t[1].leftNodeId = Wrap(2 * nodeId + 1)
            /\ t[1].rightNodeId = Wrap(2 * nodeId + 2)
            /\ \E k \in 2..(Len(t) - 1) :
                 /\ IsPreorder(SubSeq(t, 2, k), t[1].leftNodeId)
                 /\ IsPreorder(SubSeq(t, k + 1, Len(t)), t[1].rightNodeId)

\* C9: the sequence returned by buildTree(..., nodeId) starts with the node
\* nodeId; an internal node has the children ids 2*nodeId+1 and 2*nodeId+2
\* and is followed by its left and then its right subtree; a leaf is a
\* sequence of length 1 with leftId = rightId = 0.  The root call uses 0.
\* The ids are the values of the std::size_t expressions 2*nodeId+1 and
\* 2*nodeId+2 (LeftChildId, RightChildId).
\* (Stated for every tree a call has returned: the finished tree and the
\* left subtrees the calls on the stack hold.)
C9_PreorderWithHeapIds ==
    \A b \in Trees :
      /\ task[b].pc = "built" => IsPreorder(task[b].tree, 0)
      /\ \A k \in DOMAIN task[b].stack :
           task[b].stack[k].st = "right" =>
             IsPreorder(task[b].stack[k].lTree, task[b].stack[k].info.leftNodeId)
      /\ (task[b].stack # <<>> => task[b].stack[1].nodeId = 0)

\* a finished tree whose root and whose left child were both split
C9_Witness ==
    /\ task[0].pc = "built"
    /\ Len(task[0].tree) = 5
    /\ ~IsLeafNode(task[0].tree[2])

\* the class counts of the entries from..to of a table, counted one by one
CountsOf(table, data, from, to, classes) ==
    [c \in 1..classes |->
        Cardinality({k \in from..to : LabelOf(data, table[k].id) = c - 1})]

\* the impurity of splitting a node's table before its (0-based) position i:
\* n1*gini(below, n1) + n2*gini(above, n2)
BoundaryImpurity(table, data, i, classes) ==
    LET n == Len(table)
    IN RatAdd(RatScale(i, gini(CountsOf(table, data, 1, i, classes), i)),
              RatScale(n - i,
                       gini(CountsOf(table, data, i + 1, n, classes), n - i)))

\* the boundaries <<attributeIndex, i>> of the selected features: positions
\* with table[i-1].value != table[i].value
BoundariesOf(tables, tableIndicies) ==
    {bd \in tableIndicies \X (1..(Len(tables[1]) - 1)) :
        tables[bd[1] + 1][bd[2]].value # tables[bd[1] + 1][bd[2] + 1].value}

\* bd1 is met before bd2 by a scan of the features in ascending index and of
\* each table in ascending position
ScannedBefore(bd1, bd2) ==
    bd1[1] < bd2[1] \/ (bd1[1] = bd2[1] /\ bd1[2] < bd2[2])

\* C10: in the classification split search the chosen (feature, boundary) is
\* a position i of a selected feature's table with table[i-1].value !=
\* table[i].value; its size-weighted impurity is the minimum over all such
\* boundaries of all selected features; among the boundaries of minimal
\* impurity it is the first one in scan order; and a split is found iff a
\* selected feature has two different values among the node's rows.
C10_FirstMinimalBoundary ==
    \A b \in Trees :
      (task[b].search # <<>> /\ ~rf.m_regressionLearner) =>
        LET s == task[b].search[1]
            classes == Len(s.agg)
            bds == BoundariesOf(s.tables, s.tableIndicies)
            imp(bd) == BoundaryImpurity(s.tables[bd[1] + 1], task[b].data,
                                        bd[2], classes)
            chosen == <<s.result.bestAttributeIndex,
                        s.result.bestAttributeValIndex + 1>>
        IN /\ s.result.found <=>
                \E a \in s.tableIndicies :
                  \E k1, k2 \in DOMAIN s.tables[a + 1] :
                    s.tables[a + 1][k1].value # s.tables[a + 1][k2].value
           /\ s.result.found =>
                /\ chosen \in bds
                /\ RatEq(s.result.bestImpurity, imp(chosen))
                /\ \A bd \in bds : ~RatLess(imp(bd), imp(chosen))
                /\ \A bd \in bds :
                     RatEq(imp(bd), imp(chosen)) => ~ScannedBefore(bd, chosen)

\* a search over two features in which a boundary of each has the minimal
\* impurity, at different positions of their tables
C10_Witness ==
    /\ ~rf.m_regressionLearner
    /\ task[0].search # <<>>
    /\ LET s == task[0].search[1]
           bds == BoundariesOf(s.tables, s.tableIndicies)
           imp(bd) == BoundaryImpurity(s.tables[bd[1] + 1], task[0].data,
                                       bd[2], Len(s.agg))
           chosen == <<s.result.bestAttributeIndex,
                       s.result.bestAttributeValIndex + 1>>
       IN /\ s.result.found
          /\ s.tableIndicies = {0, 1}
          /\ \E bd \in bds : /\ bd[1] # chosen[1]
                              /\ bd[2] # chosen[2]
                              /\ RatEq(imp(bd), imp(chosen))

\* the nodes of a finished tree
LeavesOf(tree) == {k \in DOMAIN tree : IsLeafNode(tree[k])}
InternalsOf(tree) == {k \in DOMAIN tree : ~IsLeafNode(tree[k])}

LabelBag(table, data) ==
    LET labs == {LabelOf(data, table[k].id) : k \in DOMAIN table}
    IN [l \in labs |->
          Cardinality({k \in DOMAIN table : LabelOf(data, table[k].id) = l})]

\* the values of a vector, as a bag
SeqBag(v) ==
    [x \in Range(v) |-> Cardinality({k \in DOMAIN v : v[k] = x})]

\* the aggregate a call of buildTree was given describes the rows of its
\* tables: the class counts of the rows of tables[0], or their labels
AggregateOf(regression, agg, tables, data) ==
    IF regression
    THEN SeqBag(agg) = LabelBag(tables[1], data)
    ELSE /\ \A c \in DOMAIN agg :
              agg[c] = Cardinality({k \in DOMAIN tables[1] :
                                      LabelOf(data, tables[1][k].id) = c - 1})
         /\ SumSeq(agg) = Len(tables[1])

\* C11: at every call of buildTree (the root call and every recursive call,
\* for as long as the call holds its tables) the label aggregate passed in
\* describes exactly the rows of tables[0]: the class counts, whose sum is
\* the node's sample count, or the labels as a multiset; and at every step
\* of a classification scan cBelow + cTmpAbove is the node's count vector.
C11_AggregateMatchesRows ==
    \A b \in Trees :
      /\ \A k \in DOMAIN task[b].stack :
           LET fr == task[b].stack[k]
           IN fr.tables # <<>> =>
                AggregateOf(rf.m_regressionLearner, fr.agg, fr.tables,
                            task[b].data)
      /\ (task[b].search # <<>> /\ ~rf.m_regressionLearner) =>
           LET s == task[b].search[1]
           IN \A k \in DOMAIN s.result.scan :
                \A c \in DOMAIN s.agg :
                  s.result.scan[k].cBelow[c] + s.result.scan[k].cTmpAbove[c]
                    = s.agg[c]

\* a classification search of two scan steps has split a node of three rows
\* of two classes, and the call on its left child has been made
C11_Witness ==
    /\ ~rf.m_regressionLearner
    /\ task[0].pc = "build"
    /\ task[0].search # <<>>
    /\ Len(task[0].search[1].result.scan) >= 2
    /\ task[0].search[1].result.found
    /\ Len(task[0].stack) = 2
    /\ Top(0).st = "enter"
    /\ Top(0).nodeId = 1
    /\ SumSeq(Top(0).agg) = Len(Top(0).tables[1])
    /\ \E c \in DOMAIN task[0].stack[1].rAgg : task[0].stack[1].rAgg[c] > 0

\* C12: with the child ids computed in std::size_t arithmetic (LeftChildId,
\* RightChildId wrap modulo 2^IdBits) the ids of the nodes of one tree are
\* pairwise distinct and every internal node has a nonzero leftNodeId and a
\* nonzero rightNodeId, whatever the shape of the tree.
C12_IdsDistinctAndNonzero ==
    \A b \in Trees :
      task[b].pc = "built" =>
        LET tree == task[b].tree
        IN /\ \A k1, k2 \in DOMAIN tree :
                k1 # k2 => tree[k1].nodeId # tree[k2].nodeId
           /\ \A k \in InternalsOf(tree) :
                tree[k].leftNodeId # 0 /\ tree[k].rightNodeId # 0

\* the value of feature f (0-based) of the row id of a tree's training set
FeatureOf(data, id, f) == data[id + 1].x[f + 1]

\* iteration b has just split a node: the node's call waits for the left
\* recursive call, which has been made and holds the left tables
JustSplit(b) ==
    /\ task[b].pc = "build"
    /\ Len(task[b].stack) >= 2
    /\ Top(b).st = "enter"
    /\ task[b].stack[Len(task[b].stack) - 1].st = "left"

\* C13: when a node is split on feature f with stored threshold
\* attributeValue v, every row routed to the left child has feature-f value
\* <= v and every row routed to the right child has feature-f value > v (so
\* rows of equal feature-f value stay together), both children are
\* non-empty, and together they hold exactly the node's rows.
C13_ThresholdSeparatesChildren ==
    \A b \in Trees :
      JustSplit(b) =>
        LET parent == task[b].stack[Len(task[b].stack) - 1]
            f == parent.info.attributeIndex
            v == parent.info.attributeValue
            left == Ids(Top(b).tables[1])
            right == Ids(parent.rTables[1])
        IN /\ left # {} /\ right # {}
           /\ left \cap right = {}
           /\ left \cup right = parent.info.rows
           /\ \A id \in left : FeatureOf(task[b].data, id, f) <= v
           /\ \A id \in right : FeatureOf(task[b].data, id, f) > v
           /\ \A i \in DOMAIN Top(b).tables :
                /\ Ids(Top(b).tables[i]) = left
                /\ Ids(parent.rTables[i]) = right

\* a node of three rows has been split on its second feature, two rows of
\* equal value going to one side
C13_Witness ==
    /\ JustSplit(0)
    /\ task[0].stack[Len(task[0].stack) - 1].info.attributeIndex = 1
    /\ Cardinality(task[0].stack[Len(task[0].stack) - 1].info.rows) = 3
    /\ Len(Top(0).tables[1]) = 2
    /\ FeatureOf(task[0].data, Top(0).tables[2][1].id, 1)
         = FeatureOf(task[0].data, Top(0).tables[2][2].id, 1)


\* C14: for every dataset with n >= 1 rows and every OOB ratio the trainer
\* holds after setDefaults, the root call of buildTree receives a non-empty
\* bag: floor(n * ratio) >= 1, the tables hold at least one row, and the
\* aggregate that hist or average is applied to is not the one of an empty
\* node.
RootCall(b) ==
    /\ task[b].pc = "build"
    /\ Len(task[b].stack) = 1
    /\ Top(b).st = "enter"

C14_RootBagNonEmpty ==
    \A b \in Trees :
        RootCall(b) =>
            /\ Len(dataset) >= 1
            /\ rf.m_OOBratio > 0 /\ rf.m_OOBratio <= 100
            /\ SubsetSize(Len(dataset), rf.m_OOBratio) >= 1
            /\ Len(Top(b).tables[1]) >= 1
            /\ IF rf.m_regressionLearner THEN Top(b).agg # <<>>
               ELSE SumSeq(Top(b).agg) >= 1
=============================================================================
